---- MODULE Spec2Model ----
(***************************************************************************)
(* lyrics_downloader (src/main.py): the bounded-concurrency fetch pipeline *)
(* download_all_lyrics / download_lyrics, as a state machine.              *)
(*                                                                         *)
(* One action is one uninterrupted segment of a coroutine: the code that   *)
(* runs between two suspension points (an awaited thread-pool file         *)
(* operation, an awaited HTTP response, a wait on the semaphore), together *)
(* with the completion of the awaited operation that resumes it.           *)
(***************************************************************************)
EXTENDS Integers, Sequences, FiniteSets, TLC

(* ------------------------------ bounds --------------------------------- *)

\* media files found by the library walk
NumFiles == 2
\* permits of the semaphore (src/main.py:20 sets 10; scaled down so that
\* more tasks than permits exist)
MAX_SIMULTANEOUS_REQUESTS == 1
\* how many times download_all_lyrics is run over the same library
MaxRuns == 2
\* longest artist and longest title tried on make_search_url, besides the
\* worked example
MaxLen == 2

(* ----------------------------- the library ----------------------------- *)

MediaFiles == 1..NumFiles

\* media files 2k-1 and 2k have the same stem k (song.mp3 / song.flac)
StemOf(f) == (f + 1) \div 2

Stems == {StemOf(f) : f \in MediaFiles}

\* the library path <stem>.lrc, which the walk finds when the file exists
LrcPath(s) == NumFiles + s

Paths == MediaFiles \cup {LrcPath(s) : s \in Stems}

\* file.suffix
suffix(p) == IF p \in MediaFiles THEN ".media" ELSE ".lrc"

\* file.with_suffix('.lrc'), as the stem that names the sidecar
with_suffix(p) == IF p \in MediaFiles THEN StemOf(p) ELSE p - NumFiles

(* ---------------------------- file contents ---------------------------- *)

NL == "\n"

\* a well-formed synchronized-lyrics file of two lines
ValidLrc == <<"[", "]", "a", NL, "[", "]", "b">>

\* a file whose first line has no timestamp tag (a title line, an HTML page)
HeaderLrc == <<"a", NL, "[", "]", "b">>

\* a sidecar with no bracket at all
CorruptLrc == <<"a", "b">>

\* what the final GET may return as body
Bodies == {ValidLrc, HeaderLrc}

\* what a sidecar may hold before the first run
InitialContents == {ValidLrc, CorruptLrc}

\* f.readline(): up to and including the first line break
readline(c) ==
    IF \E i \in 1..Len(c) : c[i] = NL
    THEN SubSeq(c, 1, CHOOSE i \in 1..Len(c) :
                          c[i] = NL /\ \A j \in 1..(i - 1) : c[j] # NL)
    ELSE c

Contains(line, ch) == \E i \in 1..Len(line) : line[i] = ch

\* b'[' not in start_line or b']' not in start_line
Corrupted(line) == ~Contains(line, "[") \/ ~Contains(line, "]")

\* writing data at offset 0 of a file that holds old
Overlay(old, data) ==
    IF Len(data) >= Len(old) THEN data
    ELSE data \o SubSeq(old, Len(data) + 1, Len(old))

(* ------------------------------- tags ---------------------------------- *)

Missing == "<missing>"

\* what mutagen finds in a media file: the format and the four entries
TagSamples ==
    { [format |-> "unsupported", artist |-> Missing, album |-> Missing,
       track |-> Missing, title |-> Missing],
      [format |-> "mp3", artist |-> "Daft Punk", album |-> "Discovery",
       track |-> "1/14", title |-> "One More Time"],
      [format |-> "mp3", artist |-> Missing, album |-> "Discovery",
       track |-> "1/14", title |-> "One More Time"],
      [format |-> "mp3", artist |-> "Daft Punk", album |-> Missing,
       track |-> Missing, title |-> "One More Time"],
      [format |-> "mp3", artist |-> "Daft Punk", album |-> "Discovery",
       track |-> "1/14", title |-> Missing] }

Unread == [format |-> "unread", artist |-> Missing, album |-> Missing,
           track |-> Missing, title |-> Missing]

None == [ret |-> "None", artist |-> "", album |-> "", track |-> 0, title |-> ""]

IndexError == [ret |-> "IndexError", artist |-> "", album |-> "", track |-> 0,
               title |-> ""]

NoTags == [ret |-> "unset", artist |-> "", album |-> "", track |-> 0, title |-> ""]

\* read_tags_from_file changed to give up on a missing artist
read_tags_artist_required(m) ==
    IF m.format = "unsupported" \/ m.artist = Missing THEN None
    ELSE IF m.title = Missing THEN IndexError
    ELSE [ret |-> "tuple",
          artist |-> m.artist,
          album |-> IF m.album = Missing THEN "" ELSE m.album,
          track |-> IF m.track = Missing THEN 0 ELSE 1,
          title |-> m.title]

\* read_tags_from_file: None for an unsupported file; a missing artist, album
\* or track number is caught and replaced by a default; the title is read
\* outside any try block, so a missing title raises out of the function
read_tags_from_file(m) ==
    IF m.format = "unsupported" THEN None
    ELSE IF m.title = Missing THEN IndexError
    ELSE [ret |-> "tuple",
          artist |-> IF m.artist = Missing THEN "" ELSE m.artist,
          album |-> IF m.album = Missing THEN "" ELSE m.album,
          track |-> IF m.track = Missing THEN 0 ELSE 1,
          title |-> m.title]

(* --------------------------- make_search_url --------------------------- *)

BASE_URL == "https://www.lyricsify.com"

\* the characters tried: a letter, the space and two reserved characters
Alphabet == {"a", " ", "&", "+"}

DaftPunk == <<"D", "a", "f", "t", " ", "P", "u", "n", "k">>

OneMoreTime == <<"O", "n", "e", " ", "M", "o", "r", "e", " ", "T", "i", "m", "e">>

\* the characters urllib.parse.quote never encodes, among those tried
Unreserved == {"a", "D", "f", "t", "P", "u", "n", "k", "O", "e", "M", "o", "r",
               "T", "i", "m"}

\* %XX of the byte of a character
PercentCode(ch) ==
    CASE ch = " " -> <<"%", "2", "0">>
      [] ch = "&" -> <<"%", "2", "6">>
      [] ch = "+" -> <<"%", "2", "B">>
      [] ch = "%" -> <<"%", "2", "5">>

RECURSIVE quote(_, _)
\* urllib.parse.quote(string, safe): every character that is neither
\* unreserved nor in safe becomes %XX
quote(string, safe) ==
    IF string = <<>> THEN <<>>
    ELSE (IF Head(string) \in Unreserved \cup safe
          THEN <<Head(string)>> ELSE PercentCode(Head(string)))
         \o quote(Tail(string), safe)

\* str.replace(' ', '+')
ReplaceSpace(string) ==
    [i \in 1..Len(string) |-> IF string[i] = " " THEN "+" ELSE string[i]]

\* urllib.parse.quote_plus(string): quote with the space kept, then every
\* space replaced by '+'
quote_plus(string) == ReplaceSpace(quote(string, {" "}))

\* make_search_url changed to call quote in place of quote_plus
make_search_url_quote(artist, title) ==
    <<BASE_URL, "/search?q=">> \o quote(artist \o <<" ">> \o title, {})

\* BASE_URL + "/search?q=" + urllib.parse.quote_plus(artist + " " + title)
make_search_url(artist, title) ==
    <<BASE_URL, "/search?q=">> \o quote_plus(artist \o <<" ">> \o title)

(* ------------------------------- state --------------------------------- *)

VARIABLES
    run,          \* download_all_lyrics: "idle", "gather", "returned", "raised"
    runNo,        \* how many runs have been started
    crashed,      \* the process was killed
    async_tasks,  \* the paths the walk found, one task each
    semaphore,    \* free permits of the asyncio.Semaphore
    pc,           \* where each task is suspended, or how it ended
    outcome,      \* how a task ended: the log line, or the exception raised
    start_line,   \* the first line a task read from the existing sidecar
    rh,           \* a task's read handle on the sidecar: none, live, orphan
    rsnap,        \* what an orphaned read handle still reads
    wh,           \* a task's write handle on the sidecar: none, live, orphan
    file_content, \* the body download_file read from the final GET
    tags,         \* what read_tags_from_file returned to the task
    requests,     \* HTTP requests the task issued in this run
    deleted,      \* the task unlinked the sidecar in this run
    wrote,        \* the task wrote the sidecar in this run
    meta,         \* the tags stored in each media file
    exists,       \* the sidecar paths that exist on disk
    content,      \* the content of each sidecar path
    prevDownloaded,  \* the tasks of the previous run that wrote a sidecar
    prevBodiesValid, \* every body the previous run wrote has a valid first line
    url_artist,   \* the artist handed to make_search_url
    url_title,    \* the title handed to make_search_url
    search_url    \* what make_search_url returned

runVars == <<run, runNo, crashed, async_tasks, prevDownloaded, prevBodiesValid>>

taskVars == <<pc, outcome, start_line, rh, rsnap, wh, file_content, tags,
              requests, deleted, wrote>>

fsVars == <<exists, content>>

urlVars == <<url_artist, url_title, search_url>>

vars == <<runVars, semaphore, taskVars, meta, fsVars, urlVars>>

\* the task has not ended
Pending(t) == pc[t] \notin {"none", "done", "raised", "cancelled"}

\* inside "async with semaphore, aiohttp.ClientSession(...)"
InNetwork(t) ==
    pc[t] \in {"search", "lyrics", "download_page", "file", "open_wb", "write",
               "close_wb"}

\* every task ran its first segment: create_task schedules each task's first
\* step before download_all_lyrics suspends in gather, so the loop runs all
\* of them before any awaited operation resumes a task
started == \A t \in async_tasks : pc[t] # "start"

Running == run = "gather" /\ ~crashed

InitRun ==
    /\ run = "idle"
    /\ runNo = 0
    /\ crashed = FALSE
    /\ async_tasks = {}
    /\ semaphore = MAX_SIMULTANEOUS_REQUESTS
    /\ pc = [p \in Paths |-> "none"]
    /\ outcome = [p \in Paths |-> ""]
    /\ start_line = [p \in Paths |-> <<>>]
    /\ rh = [p \in Paths |-> "none"]
    /\ rsnap = [p \in Paths |-> <<>>]
    /\ wh = [p \in Paths |-> "none"]
    /\ file_content = [p \in Paths |-> <<>>]
    /\ tags = [p \in Paths |-> NoTags]
    /\ requests = [p \in Paths |-> 0]
    /\ deleted = [p \in Paths |-> FALSE]
    /\ wrote = [p \in Paths |-> FALSE]
    /\ meta = [p \in Paths |-> Unread]
    /\ exists \in SUBSET Stems
    /\ content \in [Stems -> InitialContents \cup {<<>>}]
    /\ \A s \in Stems : (s \in exists) <=> (content[s] # <<>>)
    /\ prevDownloaded = {}
    /\ prevBodiesValid = TRUE

\* the state before the run
Init ==
    /\ InitRun
    /\ url_artist = <<>>
    /\ url_title = <<>>
    /\ search_url = <<>>

(* ------------------------- download_all_lyrics ------------------------- *)

\* root_path.rglob("*.*"): every media file, and every sidecar on disk
rglob == MediaFiles \cup {LrcPath(s) : s \in exists}

EndedWell(t) ==
    pc[t] = "done" /\ outcome[t] \in {"SkippedLyricsFile", "SkippedExisting",
                                      "Downloaded"}

\* a new semaphore, one task per path found; then gather
StartRun ==
    /\ ~crashed
    /\ run' = "gather"
    /\ runNo' = runNo + 1
    /\ prevDownloaded' = {t \in async_tasks : outcome[t] = "Downloaded"}
    /\ prevBodiesValid' =
           \A t \in async_tasks :
               outcome[t] = "Downloaded" => ~Corrupted(readline(file_content[t]))
    /\ async_tasks' = rglob
    /\ semaphore' = MAX_SIMULTANEOUS_REQUESTS
    /\ pc' = [p \in Paths |-> IF p \in rglob THEN "start" ELSE "none"]
    /\ outcome' = [p \in Paths |-> ""]
    /\ start_line' = [p \in Paths |-> <<>>]
    /\ rh' = [p \in Paths |-> "none"]
    /\ rsnap' = [p \in Paths |-> <<>>]
    /\ wh' = [p \in Paths |-> "none"]
    /\ file_content' = [p \in Paths |-> <<>>]
    /\ tags' = [p \in Paths |-> NoTags]
    /\ requests' = [p \in Paths |-> 0]
    /\ deleted' = [p \in Paths |-> FALSE]
    /\ wrote' = [p \in Paths |-> FALSE]
    /\ UNCHANGED <<crashed, meta, fsVars, urlVars>>

\* the run of the program: asyncio.run(download_all_lyrics())
download_all_lyrics ==
    /\ run = "idle"
    /\ StartRun

\* the program is run again over the unchanged library, after a run in
\* which every task was skipped or downloaded its sidecar
Rerun ==
    /\ run = "returned"
    /\ runNo < MaxRuns
    /\ \A t \in async_tasks : EndedWell(t)
    /\ StartRun

\* gather(*async_tasks) returns once every task has returned
GatherReturn ==
    /\ Running
    /\ \A t \in async_tasks : pc[t] = "done"
    /\ run' = "returned"
    /\ UNCHANGED <<runNo, crashed, async_tasks, prevDownloaded, prevBodiesValid,
                   semaphore, taskVars,
                   meta, fsVars, urlVars>>

\* gather without return_exceptions: the first exception of a task is raised
\* out of download_all_lyrics while the other tasks are still pending
GatherRaise ==
    /\ Running
    /\ started
    /\ \E t \in async_tasks : pc[t] = "raised"
    /\ run' = "raised"
    /\ UNCHANGED <<runNo, crashed, async_tasks, prevDownloaded, prevBodiesValid,
                   semaphore, taskVars,
                   meta, fsVars, urlVars>>

(* ---------------------------- download_lyrics -------------------------- *)

\* how a task ends: "done" (it returned), "raised" (an exception left it)
Ends(t, how, what) ==
    /\ pc' = [pc EXCEPT ![t] = how]
    /\ outcome' = [outcome EXCEPT ![t] = what]

\* Enter changed to go in without looking at the permits
EnterUnbounded(t) ==
    /\ semaphore' = semaphore - 1
    /\ pc' = [pc EXCEPT ![t] = "search"]
    /\ requests' = [requests EXCEPT ![t] = @ + 1]
    /\ UNCHANGED outcome

\* async with semaphore: take a permit and issue the search request when one
\* is free, wait otherwise
Enter(t) ==
    IF semaphore > 0
    THEN /\ semaphore' = semaphore - 1
         /\ pc' = [pc EXCEPT ![t] = "search"]
         /\ requests' = [requests EXCEPT ![t] = @ + 1]
         /\ UNCHANGED outcome
    ELSE /\ pc' = [pc EXCEPT ![t] = "acquire"]
         /\ UNCHANGED <<semaphore, requests, outcome>>

\* ReadTagsAndEnter changed to lack the return on None: a file of no supported
\* format goes on to the semaphore as well
ReadTagsNoneGoesOn(t) ==
    \E m \in (IF meta[t] = Unread THEN TagSamples ELSE {meta[t]}) :
        /\ meta' = [meta EXCEPT ![t] = m]
        /\ tags' = [tags EXCEPT ![t] = read_tags_from_file(m)]
        /\ IF read_tags_from_file(m) = IndexError
           THEN /\ Ends(t, "raised", "IndexError")
                /\ UNCHANGED <<semaphore, requests>>
           ELSE Enter(t)

\* steps 3 and 4 up to the first request: read the tags; None aborts, an
\* exception leaves the task, a tuple goes on to the semaphore
ReadTagsAndEnter(t) ==
    \E m \in (IF meta[t] = Unread THEN TagSamples ELSE {meta[t]}) :
        /\ meta' = [meta EXCEPT ![t] = m]
        /\ tags' = [tags EXCEPT ![t] = read_tags_from_file(m)]
        /\ IF read_tags_from_file(m) = None
           THEN /\ Ends(t, "done", "AbortedUnsupportedFormat")
                /\ UNCHANGED <<semaphore, requests>>
           ELSE IF read_tags_from_file(m) = IndexError
           THEN /\ Ends(t, "raised", "IndexError")
                /\ UNCHANGED <<semaphore, requests>>
           ELSE Enter(t)

\* the first segment of a task: steps 1 and 2 up to the open of an existing
\* sidecar, or, with no sidecar, on to the tags and the semaphore
Start(t) ==
    /\ Running
    /\ pc[t] = "start"
    /\ IF suffix(t) = ".lrc"
       THEN /\ Ends(t, "done", "SkippedLyricsFile")
            /\ UNCHANGED <<semaphore, requests, tags, meta>>
       ELSE IF with_suffix(t) \in exists
       THEN /\ pc' = [pc EXCEPT ![t] = "open"]
            /\ UNCHANGED <<outcome, semaphore, requests, tags, meta>>
       ELSE ReadTagsAndEnter(t)
    /\ UNCHANGED <<urlVars, runVars, start_line, rh, rsnap, wh, file_content, deleted,
                   wrote, fsVars>>

\* aiofiles.open(lrc_file_path, mode='rb') in the thread pool
Open(t) ==
    /\ Running
    /\ started
    /\ pc[t] = "open"
    /\ IF with_suffix(t) \in exists
       THEN /\ pc' = [pc EXCEPT ![t] = "readline"]
            /\ rh' = [rh EXCEPT ![t] = "live"]
            /\ UNCHANGED outcome
       ELSE /\ Ends(t, "raised", "FileNotFoundError")
            /\ UNCHANGED rh
    /\ UNCHANGED <<urlVars, runVars, semaphore, start_line, rsnap, wh, file_content, tags,
                   requests, deleted, wrote, meta, fsVars>>

\* start_line = await f.readline()
Readline(t) ==
    /\ Running
    /\ started
    /\ pc[t] = "readline"
    /\ start_line' = [start_line EXCEPT ![t] =
           readline(IF rh[t] = "live" THEN content[with_suffix(t)] ELSE rsnap[t])]
    /\ pc' = [pc EXCEPT ![t] = "close"]
    /\ UNCHANGED <<urlVars, runVars, semaphore, outcome, rh, rsnap, wh, file_content, tags,
                   requests, deleted, wrote, meta, fsVars>>

\* Unlink changed to move the corrupt sidecar back once it is recorded as
\* deleted
UnlinkRolledBack(t) ==
    /\ deleted' = [deleted EXCEPT ![t] = TRUE]
    /\ rh' = [rh EXCEPT ![t] = "none"]
    /\ rsnap' = [rsnap EXCEPT ![t] = <<>>]
    /\ UNCHANGED <<wh, fsVars>>

\* lrc_file_path.unlink(): handles open on the file keep the unlinked file
Unlink(t) ==
    /\ exists' = exists \ {with_suffix(t)}
    /\ content' = [content EXCEPT ![with_suffix(t)] = <<>>]
    /\ deleted' = [deleted EXCEPT ![t] = TRUE]
    /\ rh' = [u \in Paths |->
                IF u = t THEN "none"
                ELSE IF rh[u] = "live" /\ with_suffix(u) = with_suffix(t)
                THEN "orphan" ELSE rh[u]]
    /\ rsnap' = [u \in Paths |->
                   IF u = t THEN <<>>
                   ELSE IF rh[u] = "live" /\ with_suffix(u) = with_suffix(t)
                   THEN content[with_suffix(t)] ELSE rsnap[u]]
    /\ wh' = [u \in Paths |->
                IF wh[u] = "live" /\ with_suffix(u) = with_suffix(t)
                THEN "orphan" ELSE wh[u]]

\* Close changed to lack the return of the valid branch: the task goes on to
\* the tags whatever the first line holds
CloseFallsThrough(t) ==
    /\ Running
    /\ started
    /\ pc[t] = "close"
    /\ rh' = [rh EXCEPT ![t] = "none"]
    /\ rsnap' = [rsnap EXCEPT ![t] = <<>>]
    /\ ReadTagsAndEnter(t)
    /\ UNCHANGED <<urlVars, runVars, start_line, file_content, wrote, deleted, wh, fsVars>>

\* the file is closed, then the check of the first line: a corrupt sidecar
\* is unlinked and the task goes on to the tags, a valid one ends the task
Close(t) ==
    /\ Running
    /\ started
    /\ pc[t] = "close"
    /\ IF Corrupted(start_line[t])
       THEN IF with_suffix(t) \in exists
            THEN /\ Unlink(t)
                 /\ ReadTagsAndEnter(t)
            ELSE /\ Ends(t, "raised", "FileNotFoundError")
                 /\ rh' = [rh EXCEPT ![t] = "none"]
                 /\ rsnap' = [rsnap EXCEPT ![t] = <<>>]
                 /\ UNCHANGED <<semaphore, requests, tags, meta, deleted, wh,
                                fsVars>>
       ELSE /\ Ends(t, "done", "SkippedExisting")
            /\ rh' = [rh EXCEPT ![t] = "none"]
            /\ rsnap' = [rsnap EXCEPT ![t] = <<>>]
            /\ UNCHANGED <<semaphore, requests, tags, meta, deleted, wh, fsVars>>
    /\ UNCHANGED <<urlVars, runVars, start_line, file_content, wrote>>

\* a waiting task gets a permit and issues the search request
Acquire(t) ==
    /\ Running
    /\ started
    /\ pc[t] = "acquire"
    /\ semaphore > 0
    /\ Enter(t)
    /\ UNCHANGED <<urlVars, runVars, start_line, rh, rsnap, wh, file_content, tags,
                   deleted, wrote, meta, fsVars>>

(* ------------------------------ the hops ------------------------------- *)

\* what download_url may bring back for each page: the element the next
\* step looks for, a page without it, or a transport error
SearchPages == {"anchor", "no anchor", "ClientError"}

LyricsPages == {"span", "no span", "ClientError"}

DownloadPages == {"click here", "no click here", "ClientError"}

\* RaiseInNetwork changed to keep the permit when an exception leaves the block
RaiseKeepsPermit(t, exc) ==
    /\ Ends(t, "raised", exc)
    /\ UNCHANGED <<semaphore, requests>>

\* leaving the async with block by an exception: the permit is given back
RaiseInNetwork(t, exc) ==
    /\ Ends(t, "raised", exc)
    /\ semaphore' = semaphore + 1
    /\ UNCHANGED requests

\* the next hop's request
NextHop(t, hop) ==
    /\ pc' = [pc EXCEPT ![t] = hop]
    /\ requests' = [requests EXCEPT ![t] = @ + 1]
    /\ UNCHANGED <<outcome, semaphore>>

\* SearchResponse changed to look for the anchor only after the request of
\* the lyrics page has gone out
SearchResponseLate(t) ==
    /\ Running
    /\ started
    /\ pc[t] = "search"
    /\ \E page \in SearchPages :
          IF page = "ClientError" THEN RaiseInNetwork(t, "ClientError")
          ELSE IF page = "no anchor"
          THEN /\ Ends(t, "done", "AbortedNoSearchResult")
               /\ semaphore' = semaphore + 1
               /\ requests' = [requests EXCEPT ![t] = @ + 1]
          ELSE NextHop(t, "lyrics")
    /\ UNCHANGED <<urlVars, runVars, start_line, rh, rsnap, wh, file_content, tags,
                   deleted, wrote, meta, fsVars>>

\* step 5: the search page; no anchor of class title ends the task
SearchResponse(t) ==
    /\ Running
    /\ started
    /\ pc[t] = "search"
    /\ \E page \in SearchPages :
          IF page = "ClientError" THEN RaiseInNetwork(t, "ClientError")
          ELSE IF page = "no anchor"
          THEN /\ Ends(t, "done", "AbortedNoSearchResult")
               /\ semaphore' = semaphore + 1
               /\ UNCHANGED requests
          ELSE NextHop(t, "lyrics")
    /\ UNCHANGED <<urlVars, runVars, start_line, rh, rsnap, wh, file_content, tags,
                   deleted, wrote, meta, fsVars>>

\* step 6: the lyrics page; find(...) returning None makes .parent raise
LyricsResponse(t) ==
    /\ Running
    /\ started
    /\ pc[t] = "lyrics"
    /\ \E page \in LyricsPages :
          IF page = "ClientError" THEN RaiseInNetwork(t, "ClientError")
          ELSE IF page = "no span" THEN RaiseInNetwork(t, "AttributeError")
          ELSE NextHop(t, "download_page")
    /\ UNCHANGED <<urlVars, runVars, start_line, rh, rsnap, wh, file_content, tags,
                   deleted, wrote, meta, fsVars>>

\* step 7: the download page; find(...) returning None makes ['href'] raise
DownloadPageResponse(t) ==
    /\ Running
    /\ started
    /\ pc[t] = "download_page"
    /\ \E page \in DownloadPages :
          IF page = "ClientError" THEN RaiseInNetwork(t, "ClientError")
          ELSE IF page = "no click here" THEN RaiseInNetwork(t, "TypeError")
          ELSE NextHop(t, "file")
    /\ UNCHANGED <<urlVars, runVars, start_line, rh, rsnap, wh, file_content, tags,
                   deleted, wrote, meta, fsVars>>

(* ----------------------------- download_file --------------------------- *)

\* file_content = await response.read(), then the open of the destination
FileResponse(t) ==
    /\ Running
    /\ started
    /\ pc[t] = "file"
    /\ \/ /\ RaiseInNetwork(t, "ClientError")
          /\ UNCHANGED file_content
       \/ \E body \in Bodies :
             /\ file_content' = [file_content EXCEPT ![t] = body]
             /\ pc' = [pc EXCEPT ![t] = "open_wb"]
             /\ UNCHANGED <<outcome, semaphore, requests>>
    /\ UNCHANGED <<urlVars, runVars, start_line, rh, rsnap, wh, tags, deleted, wrote,
                   meta, fsVars>>

\* aiofiles.open(destination, mode='wb'): the file is created, or truncated
OpenWb(t) ==
    /\ Running
    /\ started
    /\ pc[t] = "open_wb"
    /\ exists' = exists \cup {with_suffix(t)}
    /\ content' = [content EXCEPT ![with_suffix(t)] = <<>>]
    /\ wh' = [wh EXCEPT ![t] = "live"]
    /\ wrote' = [wrote EXCEPT ![t] = TRUE]
    /\ pc' = [pc EXCEPT ![t] = "write"]
    /\ UNCHANGED <<urlVars, runVars, semaphore, outcome, start_line, rh, rsnap,
                   file_content, tags, requests, deleted, meta>>

\* await f.write(file_content)
Write(t) ==
    /\ Running
    /\ started
    /\ pc[t] = "write"
    /\ IF wh[t] = "live"
       THEN content' = [content EXCEPT ![with_suffix(t)] =
                            Overlay(@, file_content[t])]
       ELSE UNCHANGED content
    /\ pc' = [pc EXCEPT ![t] = "close_wb"]
    /\ UNCHANGED <<urlVars, runVars, semaphore, outcome, start_line, rh, rsnap, wh,
                   file_content, tags, requests, deleted, wrote, meta, exists>>

\* CloseWb changed to keep the permit after a download
CloseWbKeepsPermit(t) ==
    /\ Running
    /\ started
    /\ pc[t] = "close_wb"
    /\ wh' = [wh EXCEPT ![t] = "none"]
    /\ Ends(t, "done", "Downloaded")
    /\ UNCHANGED semaphore
    /\ UNCHANGED <<urlVars, runVars, start_line, rh, rsnap, file_content, tags, requests,
                   deleted, wrote, meta, fsVars>>

\* the file is closed and the async with block left: the permit is given back
CloseWb(t) ==
    /\ Running
    /\ started
    /\ pc[t] = "close_wb"
    /\ wh' = [wh EXCEPT ![t] = "none"]
    /\ Ends(t, "done", "Downloaded")
    /\ semaphore' = semaphore + 1
    /\ UNCHANGED <<urlVars, runVars, start_line, rh, rsnap, file_content, tags, requests,
                   deleted, wrote, meta, fsVars>>

(* ------------------------ shutdown and crash --------------------------- *)

\* what a sidecar may hold once the pending tasks are cancelled: a write
\* already handed to the thread pool may still be done
AfterCancel(s) ==
    {content[s]} \cup
    {Overlay(content[s], file_content[t]) :
        t \in {u \in async_tasks :
                  pc[u] = "write" /\ wh[u] = "live" /\ with_suffix(u) = s}}

\* asyncio.run, once download_all_lyrics raised, cancels every pending task:
\* CancelledError is thrown in at each suspension point and the async with
\* blocks are left, which gives the permits back
Shutdown ==
    /\ run = "raised"
    /\ ~crashed
    /\ \E t \in async_tasks : Pending(t)
    /\ pc' = [t \in Paths |-> IF Pending(t) THEN "cancelled" ELSE pc[t]]
    /\ outcome' = [t \in Paths |->
                     IF Pending(t) THEN "CancelledError" ELSE outcome[t]]
    /\ semaphore' = semaphore + Cardinality({t \in async_tasks : InNetwork(t)})
    /\ rh' = [t \in Paths |-> "none"]
    /\ rsnap' = [t \in Paths |-> <<>>]
    /\ wh' = [t \in Paths |-> "none"]
    /\ content' \in {c \in [Stems -> UNION {AfterCancel(s) : s \in Stems}] :
                        \A s \in Stems : c[s] \in AfterCancel(s)}
    /\ UNCHANGED <<urlVars, runVars, start_line, file_content, tags, requests, deleted,
                   wrote, meta, exists>>

\* the process is killed (or the machine stops); a write in progress leaves
\* any prefix of the body in the file
Crash ==
    /\ Running
    /\ crashed' = TRUE
    /\ \E t \in async_tasks :
          /\ pc[t] = "write"
          /\ wh[t] = "live"
          /\ \E k \in 0..Len(file_content[t]) :
                content' = [content EXCEPT ![with_suffix(t)] =
                               Overlay(@, SubSeq(file_content[t], 1, k))]
    /\ UNCHANGED <<run, runNo, async_tasks, prevDownloaded, prevBodiesValid,
                   semaphore, taskVars, meta,
                   exists, urlVars>>

Step(t) ==
    \/ Start(t)
    \/ Open(t)
    \/ Readline(t)
    \/ Close(t)
    \/ Acquire(t)
    \/ SearchResponse(t)
    \/ LyricsResponse(t)
    \/ DownloadPageResponse(t)
    \/ FileResponse(t)
    \/ OpenWb(t)
    \/ Write(t)
    \/ CloseWb(t)

Next ==
    \/ download_all_lyrics
    \/ GatherReturn
    \/ GatherRaise
    \/ Shutdown
    \/ \E t \in Paths : Step(t)

\* one run of the program
Spec == Init /\ [][Next]_vars

NextCrash == Next \/ Crash

\* one run, which a kill of the process may end during a write
SpecCrash == Init /\ [][NextCrash]_vars

NextRerun == Next \/ Rerun

\* the program run again after a run that returned
SpecRerun == Init /\ [][NextRerun]_vars

\* the artists and titles handed to make_search_url
Texts ==
    UNION {[1..n -> Alphabet] : n \in 0..MaxLen} \cup {DaftPunk, OneMoreTime}

InitUrl ==
    /\ InitRun
    /\ exists = {}
    /\ url_artist \in Texts
    /\ url_title \in Texts
    /\ search_url = <<>>

\* search_url = make_search_url(artist, title)
MakeSearchUrl ==
    /\ search_url = <<>>
    /\ search_url' = make_search_url(url_artist, url_title)
    /\ UNCHANGED <<runVars, semaphore, taskVars, meta, fsVars, url_artist,
                   url_title>>

\* make_search_url applied to every artist and title tried
SpecUrl == InitUrl /\ [][MakeSearchUrl]_vars

(* ------------------------------ properties ----------------------------- *)

\* the sidecar path holds a file whose first line has both brackets
PresentValid(s) == s \in exists /\ ~Corrupted(readline(content[s]))

\* the tasks inside the network phase
Inside == {t \in Paths : InNetwork(t)}

\* C1: at no point are more than MAX_SIMULTANEOUS_REQUESTS tasks inside the
\* block that holds the semaphore and the HTTP session
C1_AtMostNInside == Cardinality(Inside) <= MAX_SIMULTANEOUS_REQUESTS

\* C1 witness: every permit is taken and a further task waits at the gate
C1_Witness ==
    /\ Cardinality(Inside) = MAX_SIMULTANEOUS_REQUESTS
    /\ \E t \in async_tasks : pc[t] = "acquire"

\* C2: a failure inside one task never makes the run fail and never cancels
\* another task
C2_FailureIsSwallowed ==
    (\E t \in async_tasks : pc[t] = "raised")
        => (run # "raised" /\ \A u \in async_tasks : pc[u] # "cancelled")

\* C3: once download_all_lyrics is left, by a return or by an exception, no
\* task it created is still pending, whatever the outcome of each task
C3_BarrierBeforeLeaving ==
    run \in {"returned", "raised"} => \A t \in async_tasks : ~Pending(t)

\* C4: no step deletes or overwrites a sidecar that is PresentValid
C4_ValidSidecarUntouched ==
    [][\A s \in Stems :
          PresentValid(s) => (s \in exists' /\ content'[s] = content[s])]_vars

\* C5 as claimed: after a run in which every task was skipped or downloaded,
\* a second run over the unchanged library issues no HTTP request
C5_RerunIssuesNoRequest ==
    runNo >= 2 => \A t \in Paths : requests[t] = 0

\* C5 as amended: after a run in which every task was skipped or downloaded
\* and every body written has both brackets in its first line, a second run
\* issues no HTTP request, deletes nothing and writes nothing
C5_RerunOfValidBodies ==
    (runNo >= 2 /\ prevBodiesValid)
        => \A t \in Paths : requests[t] = 0 /\ ~deleted[t] /\ ~wrote[t]

\* C5 witness: a second run has returned, after a first run that downloaded
\* a sidecar with a valid first line, and a task skipped that sidecar
C5_Witness ==
    /\ runNo = 2
    /\ run = "returned"
    /\ prevBodiesValid
    /\ \E t \in prevDownloaded : outcome[t] = "SkippedExisting"

\* C6: a task that read a first line without '[' or without ']' deletes the
\* sidecar in the same step and goes on to the tag read; a task that read a
\* first line with both ends with no delete, no tag read and no request
C6_SelfHeal ==
    [][\A t \in MediaFiles :
          (pc[t] = "close" /\ pc'[t] \notin {"close", "cancelled"})
              => IF Corrupted(start_line[t])
                 THEN /\ deleted'[t]
                      /\ with_suffix(t) \notin exists'
                      /\ tags'[t] # NoTags
                 ELSE /\ outcome'[t] = "SkippedExisting"
                      /\ ~deleted'[t]
                      /\ tags'[t] = NoTags
                      /\ requests'[t] = 0
                      /\ UNCHANGED fsVars]_vars

\* C7: a task whose search page has no anchor returned, with exactly one
\* HTTP request issued and no sidecar written
C7_ShortCircuit ==
    \A t \in Paths :
        outcome[t] = "AbortedNoSearchResult"
            => pc[t] = "done" /\ requests[t] = 1 /\ ~wrote[t]
               /\ file_content[t] = <<>>

\* C7 witness: a task ended at the search page
C7_Witness ==
    \E t \in MediaFiles :
        outcome[t] = "AbortedNoSearchResult" /\ tags[t].ret = "tuple"

\* C8: a task that read the tags of a supported file without title returned
\* (an abort outcome, not an exception) and wrote no sidecar
C8_MissingTitleAborts ==
    \A t \in MediaFiles :
        (tags[t] # NoTags /\ meta[t].format # "unsupported"
             /\ meta[t].title = Missing)
            => pc[t] = "done" /\ ~wrote[t]

WentOn(t) ==
    pc[t] = "acquire" \/ requests[t] >= 1 \/ outcome[t] = "CancelledError"

C10_NoValidTruncatedSidecar ==
    \A t \in MediaFiles :
        (crashed /\ pc[t] = "write" /\ wh[t] = "live")
            => \/ content[with_suffix(t)] = file_content[t]
               \/ ~PresentValid(with_suffix(t))

(* --- C11 --- *)

\* the query term of a search URL: what follows BASE_URL and "/search?q="
QueryOf(url) == SubSeq(url, 3, Len(url))

\* the character a %XX code of the query term stands for
Decoded(code) ==
    CASE code = <<"2", "0">> -> " "
      [] code = <<"2", "6">> -> "&"
      [] code = <<"2", "B">> -> "+"
      [] code = <<"2", "5">> -> "%"
      [] OTHER -> "?"

RECURSIVE unquote_plus(_)
\* what a server reads out of a query term: '+' is a space, %XX the byte XX
unquote_plus(q) ==
    IF q = <<>> THEN <<>>
    ELSE IF Head(q) = "%" /\ Len(q) >= 3
         THEN <<Decoded(SubSeq(q, 2, 3))>> \o unquote_plus(SubSeq(q, 4, Len(q)))
         ELSE <<IF Head(q) = "+" THEN " " ELSE Head(q)>> \o unquote_plus(Tail(q))

Count(ch, q) == Cardinality({i \in 1..Len(q) : q[i] = ch})

DaftPunkOneMoreTimePlus ==
    <<"D", "a", "f", "t", "+", "P", "u", "n", "k", "+",
      "O", "n", "e", "+", "M", "o", "r", "e", "+", "T", "i", "m", "e">>

\* C11 as stated: make_search_url(artist, title) is the search endpoint,
\* "?q=" and artist + " " + title with every character outside the unreserved
\* set, the space included, encoded as %XX (a space as %20)
C11_SpacesAsPercent20 ==
    search_url # <<>> =>
        search_url = <<BASE_URL, "/search?q=">>
                     \o quote(url_artist \o <<" ">> \o url_title, {})

\* C11, amended: make_search_url(artist, title) is the search endpoint, "?q="
\* and one query term that decodes back to artist + " " + title, in which
\* every space is encoded as '+' (there are as many '+' as spaces, and neither
\* a raw space nor a raw '&' is left); for 'Daft Punk' and 'One More Time' it
\* is <search-endpoint>?q=Daft+Punk+One+More+Time
C11_SpacesAsPlus ==
    search_url # <<>> =>
        LET term == url_artist \o <<" ">> \o url_title
            q    == QueryOf(search_url)
        IN  /\ SubSeq(search_url, 1, 2) = <<BASE_URL, "/search?q=">>
            /\ unquote_plus(q) = term
            /\ Count(" ", q) = 0
            /\ Count("&", q) = 0
            /\ Count("+", q) = Count(" ", term)
            /\ (url_artist = DaftPunk /\ url_title = OneMoreTime
                  => q = DaftPunkOneMoreTimePlus)

\* the search URL of 'Daft Punk' and 'One More Time' has been built
C11_Witness ==
    /\ url_artist = DaftPunk
    /\ url_title = OneMoreTime
    /\ search_url # <<>>

(* --- C12 --- *)

\* C12: a sidecar is written only by a task that made all four requests of the
\* chain and read the body of the last one; when such a task ends, its sidecar
\* exists and holds that body byte for byte; a task that ended at an earlier
\* hop has written nothing
C12_SidecarIsTheBody ==
    [][\A t \in MediaFiles :
          /\ wrote'[t] => requests'[t] = 4 /\ file_content'[t] \in Bodies
          /\ (pc'[t] \in {"done", "raised"} /\ outcome'[t] # "Downloaded")
                => ~wrote'[t]
          /\ (pc[t] = "close_wb" /\ pc'[t] = "done")
                => /\ with_suffix(t) \in exists'
                   /\ content'[with_suffix(t)] = file_content[t]]_vars

(* --- C13 --- *)

\* C13: a task whose lyrics page has no text matching *.lrc (hop 3), or whose
\* download page has no anchor 'click here' (hop 4), ends normally with a
\* recorded outcome: it returns, the run is not failed by it, it has issued no
\* further request and has written no sidecar
C13_MissingElementIsNonFatal ==
    \A t \in MediaFiles :
        outcome[t] \in {"AttributeError", "TypeError"} =>
            /\ pc[t] = "done"
            /\ requests[t] = (IF outcome[t] = "AttributeError" THEN 2 ELSE 3)
            /\ ~wrote[t]

(* --- C14 --- *)

\* the outcomes of step 1, step 2 and step 3 that end a task before the gate
EndedBeforeGate(t) ==
    \/ outcome[t] \in {"SkippedLyricsFile", "SkippedExisting",
                       "AbortedUnsupportedFormat"}
    \/ tags[t] = None

\* C14: the sidecar is evaluated and the tags are read without a permit: the
\* permits taken are exactly those of the tasks inside the network block, each
\* of which has read its tags and issued a request; a task that evaluates its
\* sidecar, and a task that was skipped or aborted as unsupported format, has
\* never taken a permit, issued a request or waited at the gate
C14_NoPermitBeforeNetwork ==
    /\ MAX_SIMULTANEOUS_REQUESTS - semaphore = Cardinality(Inside)
    /\ \A t \in Paths :
          /\ InNetwork(t) =>
                requests[t] >= 1 /\ tags[t] \notin {NoTags, None, IndexError}
          /\ pc[t] \in {"start", "open", "readline", "close"} =>
                requests[t] = 0 /\ tags[t] = NoTags
          /\ EndedBeforeGate(t) =>
                pc[t] = "done" /\ requests[t] = 0 /\ ~wrote[t]

\* C14 witness: a task was aborted as unsupported format, without a request,
\* while another task holds the last permit
C14_Witness ==
    /\ semaphore = 0
    /\ \E t, u \in MediaFiles :
          /\ outcome[t] = "AbortedUnsupportedFormat"
          /\ requests[t] = 0
          /\ InNetwork(u)

(* --- C15 --- *)

\* C15: the count of free permits stays within 0..N; every step moves it by
\* the number of tasks that left the network block less the number that went
\* in, whichever way they left (download done, return at the search hop,
\* exception, cancellation); once every task has ended, it is N again
C15_PermitsGivenBack ==
    [][/\ semaphore' \in 0..MAX_SIMULTANEOUS_REQUESTS
       /\ semaphore' - semaphore =
             Cardinality({t \in Paths : InNetwork(t) /\ ~InNetwork(t)'})
             - Cardinality({t \in Paths : ~InNetwork(t) /\ InNetwork(t)'})
       /\ (\A t \in Paths : ~Pending(t)')
             => semaphore' = MAX_SIMULTANEOUS_REQUESTS]_vars

\* C15 witness: every task has ended, one of them by an exception raised
\* inside the block and one by the return at the search hop, and all the
\* permits are back
C15_Witness ==
    /\ \A t \in Paths : ~Pending(t)
    /\ \E t \in MediaFiles :
          outcome[t] \in {"ClientError", "AttributeError", "TypeError"}
    /\ \E t \in MediaFiles : outcome[t] = "AbortedNoSearchResult"
    /\ semaphore = MAX_SIMULTANEOUS_REQUESTS

(* --- C16 --- *)

\* the event loop keeps running: a step that stays possible is taken
SpecFair == Init /\ [][Next]_vars /\ WF_vars(Next)

\* C16: with more files than permits, every task that was created eventually
\* ends (it returns, raises or is cancelled); in particular a task waiting
\* at the gate does not wait forever
C16_EveryTaskTerminates ==
    \A t \in Paths :
        /\ Pending(t) ~> ~Pending(t)
        /\ (pc[t] = "acquire") ~> (pc[t] # "acquire")

\* C16 witness: with no sidecar at the start, every media file took its turn
\* through the gate, more files than permits, and the run returned
C16_Witness ==
    /\ Cardinality(MediaFiles) > MAX_SIMULTANEOUS_REQUESTS
    /\ run = "returned"
    /\ \A t \in MediaFiles :
          pc[t] = "done" /\ requests[t] >= 1 /\ ~deleted[t]

(* --- C17 --- *)

\* C17: within one run each sidecar path is written by at most one task, also
\* when several media files share the stem
C17_WrittenAtMostOnce ==
    \A s \in Stems :
        Cardinality({t \in MediaFiles : wrote[t] /\ with_suffix(t) = s}) <= 1

(* --- C18 --- *)

\* C18: whenever a task that read a corrupt first line comes to the unlink,
\* the sidecar still exists: no other task has removed it since the existence
\* check and the read of the first line
C18_UnlinkFindsTheFile ==
    [][\A t \in MediaFiles :
          (/\ pc[t] = "close"
           /\ Corrupted(start_line[t])
           /\ pc'[t] \notin {"close", "cancelled"})
              => with_suffix(t) \in exists]_vars

(* --- C19 --- *)

\* C19: the unlink of a corrupt sidecar comes before the tags are read and
\* before any request, and nothing brings the file back: when a task that
\* deleted its sidecar has ended without a download (unsupported format, no
\* title, no search result, a failed hop), no file is at the sidecar path
C19_DeleteIsNotRolledBack ==
    \A t \in MediaFiles :
        /\ (~deleted[t] /\ pc[t] \in {"open", "readline", "close"})
              => tags[t] = NoTags /\ requests[t] = 0
        /\ (deleted[t] /\ pc[t] \in {"done", "raised"}
                       /\ outcome[t] # "Downloaded")
              => /\ ~wrote[t]
                 /\ with_suffix(t) \notin exists

\* C19 witness: a task deleted its corrupt sidecar and then ended at the
\* search hop, the path left empty
C19_Witness ==
    \E t \in MediaFiles :
        /\ deleted[t]
        /\ pc[t] = "done"
        /\ outcome[t] = "AbortedNoSearchResult"
        /\ with_suffix(t) \notin exists

====
